---- MODULE Spec2Model ----
(***************************************************************************)
(* Model of directiv13/lighter-bot.  The repository holds two variants of  *)
(* the same bot:                                                           *)
(*   "poll"  src/lighter_bot : a scheduled run_once polls the trade feed,  *)
(*           filters by a watermark kept in a state file, broadcasts Sell  *)
(*           alerts and pushes them to cooldown-eligible subscribers;      *)
(*   "push"  src/bot         : a WebSocket receive loop stores the trades  *)
(*           in a sorted set and calls notify_sell for every Sell trade.   *)
(* Init chooses the variant that runs.  The clock `now` counts minutes.    *)
(* An action is one segment of a coroutine between two suspension points   *)
(* (asyncio is cooperative): everything the code does without awaiting an  *)
(* external collaborator happens in one step.                              *)
(***************************************************************************)
EXTENDS Integers, Sequences, FiniteSets, TLC

\* ---------------------------------------------------------------- bounds
MaxTime == 3
MaxTs == 2
MaxBatch == 2
NumTasks == 2

\* ------------------------------------------------------------- constants
\* notification cooldown, in clock units (configuration value)
Cooldown == 2
\* settings.max_retries
MaxRetries == 3

\* push: retention horizon of the sorted set (TRADE_RETENTION_SECONDS, 360 s) and
\* report window of the default report interval (300 s), in clock units
TradeRetention == 2
ReportWindow == 1
\* push: the greatest report interval configured (REPORT_INTERVAL_MINUTES)
MaxInterval == 3
\* push: the handler stores nothing more once the sorted set holds this many members
MaxWindow == 3
\* push: trades in one message of the raw feed
MaxMessage == 2

\* push: _MIN_BACKOFF, _MAX_BACKOFF (seconds), _BACKOFF_FACTOR
MinBackoff == 2
MaxBackoff == 60
BackoffFactor == 2
\* push: connection errors in a row that are followed
MaxErrors == 7
\* MAX_CONNECTION_AGE, in units of the connection's own age
MaxConnectionAge == 2

Tasks == 1..NumTasks
UserIds == {1, 2}
Keys == {"k1"}
NoKey == "none"
\* SQL NULL / Python None; a value v is <<v>>
NULL == <<>>
Some(v) == <<v>>

Directions == {"Buy", "Sell"}
UsdSizes == {1}
Trade == [ts : 1..MaxTs, direction : Directions, usd_size : UsdSizes]
\* usd_size is any Decimal: a trade of size 0 passes the schema
TradeOfAnySize == [ts : 1..MaxTs, direction : Directions, usd_size : {0, 1}]

RECURSIVE SeqsUpTo(_, _)
SeqsUpTo(S, n) ==
    IF n = 0 THEN {<<>>}
    ELSE LET shorter == SeqsUpTo(S, n - 1)
         IN  shorter \cup {Append(s, x) : s \in {q \in shorter : Len(q) = n - 1}, x \in S}

\* what one fetch_trades call can return ([] also stands for every failed fetch)
Batches == SeqsUpTo(Trade, MaxBatch)
BatchesOfAnySize == SeqsUpTo(TradeOfAnySize, MaxBatch)

VARIABLES
    variant,    \* "poll" | "push": which of the two programs runs
    now,        \* the wall clock
    users,      \* the subscriber table: user_id -> row
    stateFile,  \* poll: the persisted watermark, NULL when absent or unreadable
    jobLock,    \* poll: TradeMonitorService._job_lock is held
    pc,         \* per task: where the coroutine is suspended
    loc,        \* per task: the locals of the running invocation
    gh,         \* per task: history of the running invocation (not program state)
    prevRaw,    \* history: the batch returned by the previous fetch
    delivAt,    \* history: per user, time of the last confirmed personal delivery,
                \* forgotten once it is a full Cooldown old
    tooSoon,    \* history: users that got two confirmed deliveries < Cooldown apart
    probe,      \* which of the histories prevRaw / delivAt is recorded in this run
    window,     \* push: the members of the sorted set trades:<account>
    ws,         \* push: the WebSocket message handler (position and locals)
    reporter,   \* push: the report job (position, locals and history)
    conn,       \* push: the WebSocket connection and the reconnect loop of _run
    phase       \* "running", "stopping" (scheduler shut down) or "closed"

vars ==
    <<variant, now, users, stateFile, jobLock, pc, loc, gh, prevRaw, delivAt, tooSoon,
      probe, conn, phase, window, ws, reporter>>

NoRow == [reg |-> FALSE, key |-> NoKey, last |-> NULL]

NoLoc ==
    [fresh |-> <<>>, i |-> 0, cutoff |-> 0, subs |-> <<>>, j |-> 0, attempt |-> 0,
     at |-> 0]

\* did: the effects of this invocation; sawLocked: the lock was held when it was
\* called; wm0: the persisted watermark when it started; feed: how fetch_trades
\* ended; loaded: the watermark load_last_ts returned (recorded with prevRaw); same: its batch is the
\* previous fetch's batch; bcast: broadcast sends per admitted trade; and, for the
\* dispatch of the current Sell trade: disp (none/open/closed/aborted), cooling and
\* again / advanced: what the previous cycle did with that same batch;
\* due (the users the table showed inside / past their cooldown), attempted,
\* confirmed, stamped, early (the users whose send was given up after a non-2xx
\* response although it had been tried only once; recorded on request); lost: the
\* broadcast send that has just returned had failed; starved (recorded on request):
\* the fetched trades no earlier fetch had returned that were not admitted although
\* their timestamp equals the loaded watermark
NoGh ==
    [did |-> {}, sawLocked |-> FALSE, wm0 |-> NULL, feed |-> "none", loaded |-> NULL,
     same |-> FALSE, again |-> {}, advanced |-> FALSE, bcast |-> <<>>,
     disp |-> "none", cooling |-> {}, due |-> {}, attempted |-> {}, confirmed |-> {},
     stamped |-> {}, early |-> {}, lost |-> FALSE, starved |-> {}]

\* the message handler: idle, or awaiting store_trades ("store") or
\* purge_old_trades ("purge"), or over ("handled", "dropped", or "cancelled" with the
\* receive loop); members: the enriched
\* trades of the message; cutoff: the purge cutoff; removed: what the purge returned
\* purged: history, the greatest cutoff a purge has run with (0: none yet);
\* msg: the type of the message being handled; pongs: the pongs sent for it;
\* raw: the trades it carried; norm: how their enrichment ended (ok / raised);
\* called: the trades of the message the sell callback is called for
NoWs ==
    [pc |-> "idle", members |-> {}, cutoff |-> 0, removed |-> 0, purged |-> 0,
     msg |-> "none", pongs |-> 0, raw |-> 0, norm |-> "none",
     called |-> {}]

\* the connection: "down" (not connected, about to connect), "open", "broken" (the
\* next receive raises) or "sleep" (waiting before the reconnect); backoff: the
\* local of _run; and as history, errors: the connection errors since the backoff
\* was last reset, slept: the delay of the current or last wait; age: the time the
\* connection has been open, against the timeout of wait_for
NoConn == [state |-> "down", backoff |-> MinBackoff, errors |-> 0, slept |-> 0, age |-> 0]

\* the report job: idle, awaiting get_recent_trades ("read") or send_message
\* ("send"), or over ("quiet": nothing emitted, "posted"); min_score: the start of the
\* trailing window; trades: what the read returned; got: how the read ended;
\* message: the report; sends: the send_message calls of this run; purged: history,
\* the greatest cutoff a purge had run with when the read was issued; interval:
\* settings.report_interval_minutes, the period of the job and its window; prev:
\* history, recorded in the run that follows the reports: when the previous run of
\* the job fired, when its read returned and the buy and sell trades it counted
NoReport == [buy |-> 0, sell |-> 0, lines |-> <<>>]

NoReporter ==
    [pc |-> "idle", min_score |-> 0, trades |-> <<>>, got |-> "none",
     message |-> NoReport, sends |-> 0, purged |-> 0, interval |-> ReportWindow,
     prev |-> [at |-> 0, read |-> 0, counted |-> {}]]

\* int(os.getenv("REPORT_INTERVAL_MINUTES", "5")): the default, or, in the run that
\* follows the configuration, any interval
ReportIntervals(p) == IF p = "config" THEN 1..MaxInterval ELSE {ReportWindow}

\* history of the previous fetch: its batch, the trades its cycle broadcast, and
\* whether its cycle advanced the persisted watermark
\* seen (recorded on request): every trade an earlier fetch returned
NoRaw == [batch |-> <<>>, alerted |-> {}, advanced |-> FALSE, seen |-> {}]

InitWith(v, p) ==
    /\ variant = v
    /\ probe = p
    /\ now = 1
    /\ users = [u \in UserIds |-> NoRow]
    /\ stateFile = NULL
    /\ jobLock = FALSE
    /\ pc = [t \in Tasks |-> "idle"]
    /\ loc = [t \in Tasks |-> NoLoc]
    /\ gh = [t \in Tasks |-> NoGh]
    /\ prevRaw = NoRaw
    /\ delivAt = [u \in UserIds |-> NULL]
    /\ tooSoon = {}
    /\ window = {}
    /\ ws = NoWs
    /\ reporter \in {[NoReporter EXCEPT !.interval = i] : i \in ReportIntervals(p)}
    /\ conn = NoConn
    /\ phase = "running"

Init == \E v \in {"poll", "push"} : InitWith(v, "none")

Ended == {"skipped", "done", "raised", "cancelled"}

\* An ended invocation returns to its caller in the very step that ended it; the
\* model keeps the ended state for one step so that it can be observed.
\* The report job's send_message reads and writes nothing the other steps touch;
\* they are not interleaved with it.
Settled ==
    /\ \A t \in Tasks : pc[t] \notin Ended
    /\ tooSoon = {}
    /\ ws.pc \notin {"handled", "dropped", "cancelled"}
    /\ reporter.pc \notin {"send", "quiet", "posted"}

\* ------------------------------------------------------------ the clock
Tick ==
    /\ Settled
    /\ now < MaxTime
    /\ now' = now + 1
    /\ delivAt' = [u \in UserIds |->
                     IF delivAt[u] # NULL /\ now + 1 - delivAt[u][1] >= Cooldown
                     THEN NULL ELSE delivAt[u]]
    /\ UNCHANGED <<variant, users, stateFile, jobLock, pc, loc, gh, prevRaw, tooSoon, probe, conn, phase, window, ws, reporter>>

\* ------------------------------------------------- subscriber commands
\* a faulty upsert, for comparison: INSERT OR REPLACE
UpsertRowReplace(row, key) == [reg |-> TRUE, key |-> key, last |-> NULL]

\* INSERT ... ON CONFLICT(user_id) DO UPDATE SET pushover_user_key = excluded...
UpsertRow(row, key) ==
    IF row.reg THEN [row EXCEPT !.key = key]
    ELSE [reg |-> TRUE, key |-> key, last |-> NULL]

UpsertSubscription(u, key) ==
    /\ Settled
    /\ users' = [users EXCEPT ![u] = UpsertRow(users[u], key)]
    /\ UNCHANGED <<variant, now, stateFile, jobLock, pc, loc, gh, prevRaw, delivAt, tooSoon, probe, conn, phase, window, ws, reporter>>

DeleteSubscription(u) ==
    /\ Settled
    /\ users[u].reg
    /\ users' = [users EXCEPT ![u] = NoRow]
    /\ UNCHANGED <<variant, now, stateFile, jobLock, pc, loc, gh, prevRaw, delivAt, tooSoon, probe, conn, phase, window, ws, reporter>>

\* UPDATE ... SET last_notification_at = ? WHERE user_id = ?  (no row: no effect)
MarkRow(row, at) ==
    IF row.reg THEN [row EXCEPT !.last = Some(at)] ELSE row

Commands ==
    \/ \E u \in UserIds, k \in Keys : UpsertSubscription(u, k)
    \/ \E u \in UserIds : DeleteSubscription(u)

\* ------------------------------------------------------- pure helpers
RECURSIVE InsertByTs(_, _)
InsertByTs(sorted, x) ==
    IF sorted = <<>> THEN <<x>>
    ELSE IF sorted[Len(sorted)].ts <= x.ts THEN Append(sorted, x)
    ELSE Append(InsertByTs(SubSeq(sorted, 1, Len(sorted) - 1), x), sorted[Len(sorted)])

\* sorted(trades, key=lambda item: item.ts): stable, ascending
RECURSIVE SortByTs(_)
SortByTs(trades) ==
    IF trades = <<>> THEN <<>>
    ELSE InsertByTs(SortByTs(SubSeq(trades, 1, Len(trades) - 1)), trades[Len(trades)])

\* a faulty filter, for comparison: a trade at the watermark is admitted again
IsFreshOrEqual(tr, last) == last = NULL \/ tr.ts >= last[1]

\* `if last_processed_ts is None or trade.ts > last_processed_ts`
IsFresh(tr, last) == last = NULL \/ tr.ts > last[1]

FreshTrades(trades, last) ==
    SelectSeq(SortByTs(trades), LAMBDA tr : IsFresh(tr, last))

RECURSIVE MaxTsOf(_)
MaxTsOf(trades) ==
    IF Len(trades) = 1 THEN trades[1].ts
    ELSE LET m == MaxTsOf(Tail(trades))
         IN  IF trades[1].ts > m THEN trades[1].ts ELSE m

RECURSIVE TotalUsd(_, _)
TotalUsd(trades, dir) ==
    IF trades = <<>> THEN 0
    ELSE (IF trades[1].direction = dir THEN trades[1].usd_size ELSE 0)
         + TotalUsd(Tail(trades), dir)

\* a faulty loop, for comparison: no trade is taken for a Sell
NextSellNone(fresh, i) == 0

\* index of the first Sell trade at or after position i (0: none); the Buy trades
\* before it only add to total_buy
RECURSIVE NextSell(_, _)
NextSell(fresh, i) ==
    IF i > Len(fresh) THEN 0
    ELSE IF fresh[i].direction = "Sell" THEN i
    ELSE NextSell(fresh, i + 1)

\* StateStore.load_last_ts: a missing, unreadable or corrupt file reads as None
LoadLastTs(file, readOk) == IF readOk THEN file ELSE NULL

\* StateStore.save_last_ts: OSError is swallowed; write_text truncates before it
\* writes, so a failed write leaves the old content or an empty (unreadable) file
SaveLastTs(file, ts, outcome) ==
    CASE outcome = "ok" -> Some(ts)
      [] outcome = "unchanged" -> file
      [] outcome = "truncated" -> NULL

SaveOutcomes == {"ok", "unchanged", "truncated"}

\* WHERE last_notification_at IS NULL OR last_notification_at <= cutoff
IsEligible(row, cutoff) == row.reg /\ (row.last = NULL \/ row.last[1] <= cutoff)

RECURSIVE RowsAsc(_, _)
RowsAsc(tbl, ids) ==
    IF ids = {} THEN <<>>
    ELSE LET u == CHOOSE x \in ids : \A y \in ids : x <= y
         IN  <<[user_id |-> u, key |-> tbl[u].key]>>
             \o RowsAsc(tbl, ids \ {u})

ListEligibleSubscriptions(tbl, cutoff) ==
    RowsAsc(tbl, {u \in UserIds : IsEligible(tbl[u], cutoff)})

\* history: the users a table shows inside, and past, their cooldown at time h
CoolingAt(tbl, h) ==
    {u \in UserIds : tbl[u].reg /\ tbl[u].last # NULL
                     /\ tbl[u].last[1] < h /\ h < tbl[u].last[1] + Cooldown}

DueAt(tbl, h) ==
    {u \in UserIds : tbl[u].reg /\ tbl[u].last # NULL /\ h >= tbl[u].last[1] + Cooldown}

\* history: the push collaborator confirmed a delivery to u now
Delivered(u) ==
    IF probe = "deliv"
    THEN /\ delivAt' = [delivAt EXCEPT ![u] = Some(now)]
         /\ tooSoon' = IF delivAt[u] # NULL /\ now - delivAt[u][1] < Cooldown
                       THEN tooSoon \cup {u} ELSE tooSoon
    ELSE UNCHANGED <<delivAt, tooSoon>>

\* ------------------------------------------------- poll: run_once
InBody == {"fetch", "alert", "list", "push", "mark", "summary"}

\* a faulty guard, for comparison: the cycle starts whatever the lock says
MayEnterAlways(locked) == TRUE

\* `if self._job_lock.locked(): return`, else `async with self._job_lock`
MayEnter(locked) == ~locked

\* run_once is called by the start-up call and by every scheduler tick (main.py
\* 45-64); the model lets any two calls overlap, so the guard below is what keeps
\* the cycles apart.  Callers are interchangeable: the lowest idle one calls next.
RunOnce(t) ==
    /\ variant = "poll"
    /\ phase = "running"
    /\ Settled
    /\ pc[t] = "idle"
    /\ \A t2 \in Tasks : t2 < t => pc[t2] # "idle"
    /\ IF MayEnter(jobLock)
       THEN /\ jobLock' = TRUE
            /\ pc' = [pc EXCEPT ![t] = "fetch"]
            /\ gh' = [gh EXCEPT ![t] = [NoGh EXCEPT !.did = {"fetch"}, !.wm0 = stateFile,
                                                   !.sawLocked = jobLock]]
       ELSE /\ jobLock' = jobLock
            /\ pc' = [pc EXCEPT ![t] = "skipped"]
            /\ gh' = [gh EXCEPT ![t] = [NoGh EXCEPT !.sawLocked = jobLock]]
    /\ UNCHANGED <<variant, now, users, stateFile, loc, prevRaw, delivAt, tooSoon, probe, conn, phase, window, ws, reporter>>

\* the cycle ends without a watermark write (early return)
Finish(t, l, g) ==
    /\ pc' = [pc EXCEPT ![t] = "done"]
    /\ loc' = [loc EXCEPT ![t] = l]
    /\ gh' = [gh EXCEPT ![t] = g]
    /\ jobLock' = FALSE
    /\ stateFile' = stateFile

\* an exception leaves run_once: `async with` releases the lock
Raise(t, l, g) ==
    /\ pc' = [pc EXCEPT ![t] = "raised"]
    /\ loc' = [loc EXCEPT ![t] = l]
    /\ gh' = [gh EXCEPT ![t] = [g EXCEPT !.disp = IF @ = "open" THEN "aborted" ELSE @]]
    /\ jobLock' = FALSE
    /\ stateFile' = stateFile

\* latest_ts = max(...); save_last_ts(latest_ts); leave the lock
SaveAndFinish(t, l, g) ==
    \E outcome \in SaveOutcomes :
        /\ stateFile' = SaveLastTs(stateFile, MaxTsOf(l.fresh), outcome)
        /\ pc' = [pc EXCEPT ![t] = "done"]
        /\ loc' = [loc EXCEPT ![t] = l]
        /\ gh' = [gh EXCEPT ![t] =
                     [g EXCEPT !.did = @ \cup {"savewm"}
                                         \cup (IF outcome = "ok" THEN {} ELSE {"savefail"})]]
        /\ jobLock' = FALSE

\* the `for trade in fresh_trades` loop from position i up to its next await
LoopFrom(t, i, l, g) ==
    LET k == NextSell(l.fresh, i) IN
    IF k # 0
    THEN /\ pc' = [pc EXCEPT ![t] = "alert"]
         /\ loc' = [loc EXCEPT ![t] = [l EXCEPT !.i = k]]
         /\ gh' = [gh EXCEPT ![t] = [g EXCEPT !.did = @ \cup {"alert"},
                                              !.bcast[k] = @ + 1]]
         /\ UNCHANGED <<stateFile, jobLock>>
    ELSE IF TotalUsd(l.fresh, "Buy") > 0 \/ TotalUsd(l.fresh, "Sell") > 0
    THEN /\ pc' = [pc EXCEPT ![t] = "summary"]
         /\ loc' = [loc EXCEPT ![t] = [l EXCEPT !.i = Len(l.fresh) + 1]]
         /\ gh' = [gh EXCEPT ![t] = [g EXCEPT !.did = @ \cup {"summary"}]]
         /\ UNCHANGED <<stateFile, jobLock>>
    ELSE SaveAndFinish(t, [l EXCEPT !.i = Len(l.fresh) + 1], g)

\* one HTTP exchange of fetch_trades:
\*   ok        2xx, JSON, valid schema: the payload's trades are returned
\*   retry     429, 5xx or timeout: sleep, then the next attempt if any is left
\*   httperror other HTTPError (4xx, transport): returns []
\*   invalid   the payload fails TradesResponse validation: returns []
\*   nonjson   the body is not JSON: returns []
\*   malformed 429 whose Retry-After is not an integer: int() raises ValueError,
\*             which no except clause of fetch_trades catches
\* the payloads of the feed: trades of non-zero size, unless the run is the one
\* that also feeds trades of size 0
Payloads == IF probe = "sizes" THEN BatchesOfAnySize ELSE Batches

FetchOutcomes == {"ok", "retry", "httperror", "invalid", "nonjson", "malformed"}

\* a faulty result, for comparison: the trades of a rejected payload are kept
FetchResultLenient(outcome, payload) == payload

\* what fetch_trades returns for a final exchange
FetchResult(outcome, payload) == IF outcome = "ok" THEN payload ELSE <<>>

\* fetch_trades returned `trades`; load the watermark, filter, start the loop
Fetched(t, trades, feed, readOk) ==
    LET same == trades # <<>> /\ trades = prevRaw.batch
        loaded == LoadLastTs(stateFile, readOk)
        g0 == [gh[t] EXCEPT !.feed = feed,
                            !.same = same,
                            !.again = IF same THEN prevRaw.alerted ELSE {},
                            !.advanced = same /\ prevRaw.advanced]
        l0 == [loc[t] EXCEPT !.attempt = 0]
    IN
    /\ prevRaw' = IF probe = "replay" THEN [NoRaw EXCEPT !.batch = trades]
                  ELSE IF probe = "seen"
                  THEN [prevRaw EXCEPT !.seen = @ \cup {trades[k] : k \in 1..Len(trades)}]
                  ELSE prevRaw
    /\ IF trades = <<>>
       THEN readOk /\ Finish(t, l0, g0)
       ELSE LET fresh == FreshTrades(trades, loaded)
                g == [g0 EXCEPT !.did = @ \cup {"loadwm"},
                                !.loaded = IF probe = "replay" THEN loaded ELSE NULL,
                                !.starved =
                                    IF probe = "seen" /\ loaded # NULL
                                    THEN {trades[k] : k \in 1..Len(trades)}
                                         \ ({tr \in Trade : tr.ts # loaded[1]}
                                            \cup prevRaw.seen
                                            \cup {fresh[k] : k \in 1..Len(fresh)})
                                    ELSE {},
                                !.bcast = [k \in 1..Len(fresh) |-> 0]]
            IN  /\ (stateFile = NULL => readOk)
                /\ IF fresh = <<>>
                   THEN Finish(t, l0, g)
                   ELSE LoopFrom(t, 1, [l0 EXCEPT !.fresh = fresh], g)

\* the response to the pending request of fetch_trades arrives (loc.attempt counts
\* the requests already answered)
FetchReturn(t) ==
    /\ Settled
    /\ pc[t] = "fetch"
    /\ \E outcome \in FetchOutcomes, payload \in Payloads, readOk \in BOOLEAN :
        /\ outcome \in {"retry", "httperror", "malformed"} => payload = <<>>
        /\ CASE outcome = "retry" /\ loc[t].attempt + 1 < MaxRetries ->
                  /\ readOk
                  /\ loc' = [loc EXCEPT ![t].attempt = @ + 1]
                  /\ UNCHANGED <<pc, gh, stateFile, jobLock, prevRaw>>
             [] outcome = "retry" /\ loc[t].attempt + 1 >= MaxRetries ->
                  Fetched(t, <<>>, "exhausted", readOk)
             [] outcome = "malformed" ->
                  /\ readOk
                  /\ Raise(t, [loc[t] EXCEPT !.attempt = 0],
                           [gh[t] EXCEPT !.feed = "malformed"])
                  /\ prevRaw' = prevRaw
             [] OTHER ->
                  Fetched(t, FetchResult(outcome, payload), outcome, readOk)
    /\ UNCHANGED <<variant, now, users, delivAt, tooSoon, probe, conn, phase, window, ws, reporter>>

\* a faulty wrapper, for comparison: the failure of a send is passed on
SafeSendRaises(ok) == ok

\* _safe_send returns normally whether bot.send_message succeeded or raised
SafeSend(ok) == TRUE

\* _get_conn: the store has a connection from connect (before the first cycle) to
\* close (in the `finally` of run)
IsConnected(ph) == ph # "closed"

\* the broadcast send returned (a failure is swallowed by _safe_send);
\* _send_pushover_sell_alert computes the cutoff and issues the query, for which
\* _get_conn raises RuntimeError when the store is closed
AlertReturn(t) ==
    /\ Settled
    /\ pc[t] = "alert"
    /\ \E ok \in BOOLEAN :
        IF SafeSend(ok) /\ ~IsConnected(phase)
        THEN Raise(t, loc[t], [gh[t] EXCEPT !.did = @ \cup {"notconnected"},
                                            !.lost = ~ok])
        ELSE IF SafeSend(ok)
        THEN /\ pc' = [pc EXCEPT ![t] = "list"]
             /\ loc' = [loc EXCEPT ![t] = [@ EXCEPT !.cutoff = now - Cooldown,
                                                    !.subs = <<>>, !.j = 0, !.attempt = 0]]
             /\ gh' = [gh EXCEPT ![t] = [@ EXCEPT !.did = @ \cup {"subs"}, !.disp = "open",
                                                  !.cooling = {}, !.due = {},
                                                  !.attempted = {}, !.confirmed = {},
                                                  !.stamped = {}, !.early = {},
                                                  !.lost = ~ok]]
             /\ UNCHANGED <<stateFile, jobLock>>
        ELSE Raise(t, loc[t], gh[t])
    /\ UNCHANGED <<variant, now, users, prevRaw, delivAt, tooSoon, probe, conn, phase, window, ws, reporter>>

\* after subscription j: the next send, or the end of the dispatch
NextSub(t, l, g) ==
    IF l.j < Len(l.subs)
    THEN /\ pc' = [pc EXCEPT ![t] = "push"]
         /\ loc' = [loc EXCEPT ![t] = [l EXCEPT !.j = @ + 1, !.attempt = 1]]
         /\ gh' = [gh EXCEPT ![t] =
                      [g EXCEPT !.attempted = @ \cup {l.subs[l.j + 1].user_id}]]
         /\ UNCHANGED <<stateFile, jobLock>>
    ELSE LoopFrom(t, l.i + 1, l, [g EXCEPT !.disp = "closed"])

\* the query returns the eligible rows (or the store raises); `now` is read and
\* the first send is issued
ListReturn(t) ==
    /\ Settled
    /\ pc[t] = "list"
    /\ \E ok \in BOOLEAN :
        IF ok
        THEN NextSub(t, [loc[t] EXCEPT
                            !.subs = ListEligibleSubscriptions(users, loc[t].cutoff),
                            !.at = now, !.j = 0],
                     [gh[t] EXCEPT !.cooling = CoolingAt(users, loc[t].cutoff + Cooldown),
                                   !.due = DueAt(users, loc[t].cutoff + Cooldown),
                                   !.lost = FALSE])
        ELSE Raise(t, loc[t], [gh[t] EXCEPT !.lost = FALSE])
    /\ UNCHANGED <<variant, now, users, prevRaw, delivAt, tooSoon, probe, conn, phase, window, ws, reporter>>

PushOutcomes == {"delivered", "rejected", "retry", "malformed"}

\* a faulty result, for comparison: every final response counts as sent
SentAlways(outcome) == TRUE

\* the value send_sell_notification returns for a final response:
\* `bool(data.get("status") == 1)` after raise_for_status, False for an HTTPError
Sent(outcome) == outcome = "delivered"

\* one HTTP response (or timeout) of send_sell_notification
PushReturn(t) ==
    /\ Settled
    /\ pc[t] = "push"
    /\ LET l == loc[t]
           g == gh[t]
           u == l.subs[l.j].user_id
       IN \E outcome \in PushOutcomes :
          CASE outcome \in {"delivered", "rejected"} ->
                 \* a final response; `if sent:` mark_notified is issued
                 IF Sent(outcome) /\ ~IsConnected(phase)
                 THEN /\ Raise(t, l, [g EXCEPT !.did = @ \cup {"notconnected"},
                                               !.confirmed = @ \cup {u}])
                      /\ Delivered(u)
                 ELSE IF Sent(outcome)
                 THEN /\ pc' = [pc EXCEPT ![t] = "mark"]
                      /\ loc' = loc
                      /\ UNCHANGED <<stateFile, jobLock>>
                      /\ IF outcome = "delivered"
                         THEN /\ gh' = [gh EXCEPT ![t] = [g EXCEPT !.confirmed = @ \cup {u}]]
                              /\ Delivered(u)
                         ELSE /\ gh' = gh
                              /\ UNCHANGED <<delivAt, tooSoon>>
                 ELSE /\ NextSub(t, l, g)
                      /\ UNCHANGED <<delivAt, tooSoon>>
            [] outcome = "retry" ->
                 \* 429, 5xx, timeout: sleep, then the next attempt if any is left
                 /\ IF l.attempt < MaxRetries
                    THEN /\ loc' = [loc EXCEPT ![t].attempt = @ + 1]
                         /\ UNCHANGED <<pc, gh, stateFile, jobLock>>
                    ELSE NextSub(t, l, g)
                 /\ UNCHANGED <<delivAt, tooSoon, probe, conn, phase, window, ws, reporter>>
            [] outcome = "malformed" ->
                 \* 429 whose Retry-After is not an integer: int() raises ValueError
                 /\ Raise(t, l, g)
                 /\ UNCHANGED <<delivAt, tooSoon, probe, conn, phase, window, ws, reporter>>
    /\ UNCHANGED <<variant, now, users, prevRaw, probe, conn, phase, window, ws, reporter>>

\* mark_notified(user_id, now) commits, or raises
MarkNotified(t) ==
    /\ Settled
    /\ pc[t] = "mark"
    /\ LET l == loc[t]
           g == gh[t]
           u == l.subs[l.j].user_id
       IN \E ok \in BOOLEAN :
          IF ok
          THEN /\ users' = [users EXCEPT ![u] = MarkRow(@, l.at)]
               /\ NextSub(t, l, [g EXCEPT !.stamped = @ \cup {u}])
          ELSE /\ users' = users
               /\ Raise(t, l, g)
    /\ UNCHANGED <<variant, now, prevRaw, delivAt, tooSoon, probe, conn, phase, window, ws, reporter>>

\* the summary send returned (a failure is swallowed); the watermark is saved
SummaryReturn(t) ==
    /\ Settled
    /\ pc[t] = "summary"
    /\ \E ok \in BOOLEAN :
        IF SafeSend(ok)
        THEN SaveAndFinish(t, loc[t], [gh[t] EXCEPT !.lost = ~ok])
        ELSE Raise(t, loc[t], gh[t])
    /\ UNCHANGED <<variant, now, users, prevRaw, delivAt, tooSoon, probe, conn, phase, window, ws, reporter>>

\* history: the trades a cycle broadcast; the cycle moved the watermark forward
Alerted(fresh, bcast) == {fresh[k] : k \in {n \in DOMAIN bcast : bcast[n] > 0}}

Advanced(before, after) == after # NULL /\ (before = NULL \/ after[1] > before[1])

\* the invocation is over; the task can be called again
Return(t) ==
    /\ pc[t] \in Ended
    /\ tooSoon = {}
    /\ pc' = [pc EXCEPT ![t] = "idle"]
    /\ loc' = [loc EXCEPT ![t] = NoLoc]
    /\ gh' = [gh EXCEPT ![t] = NoGh]
    /\ prevRaw' = IF probe = "replay" /\ pc[t] # "skipped"
                  THEN [prevRaw EXCEPT !.alerted = Alerted(loc[t].fresh, gh[t].bcast),
                                       !.advanced = Advanced(gh[t].wm0, stateFile)]
                  ELSE prevRaw
    /\ UNCHANGED <<variant, now, users, stateFile, jobLock, delivAt, tooSoon, probe, conn, phase, window, ws, reporter>>

\* ------------------------------------------------- poll: shutdown
\* the `finally` of run: scheduler.shutdown(wait=False) returns at once; no tick
\* starts a cycle any more
Shutdown ==
    /\ variant = "poll"
    /\ phase = "running"
    /\ phase' = "stopping"
    /\ UNCHANGED <<variant, now, users, stateFile, jobLock, pc, loc, gh, prevRaw, delivAt,
                   tooSoon, probe, conn, window, ws, reporter>>

\* the feed client, the push client, the subscriber store and the bot session are
\* closed one after the other; nothing waits for a cycle that is still running
Close ==
    /\ phase = "stopping"
    /\ phase' = "closed"
    /\ UNCHANGED <<variant, now, users, stateFile, jobLock, pc, loc, gh, prevRaw, delivAt,
                   tooSoon, probe, conn, window, ws, reporter>>

\* a cycle still running when the scheduler is shut down is cancelled at the await
\* it is suspended in (by the executor's shutdown, or when asyncio.run ends the
\* loop): CancelledError leaves run_once, `async with` releases the lock
Abandon(t) ==
    /\ phase # "running"
    /\ pc[t] \in InBody
    /\ pc' = [pc EXCEPT ![t] = "cancelled"]
    /\ gh' = [gh EXCEPT ![t].disp = IF @ = "open" THEN "aborted" ELSE @]
    /\ jobLock' = FALSE
    /\ UNCHANGED <<variant, now, users, stateFile, loc, prevRaw, delivAt, tooSoon, probe,
                   conn, phase, window, ws, reporter>>

\* ------------------------------------------------- push: notify_sell
\* get_all_users: SELECT user_id, pushover_key, last_notification_at FROM users
RECURSIVE AllRowsAsc(_, _)
AllRowsAsc(tbl, ids) ==
    IF ids = {} THEN <<>>
    ELSE LET u == CHOOSE x \in ids : \A y \in ids : x <= y
         IN  <<[user_id |-> u, key |-> tbl[u].key, last |-> tbl[u].last]>>
             \o AllRowsAsc(tbl, ids \ {u})

GetAllUsers(tbl) == AllRowsAsc(tbl, {u \in UserIds : tbl[u].reg})

\* `if last_notified and (now - last_notified) < _COOLDOWN_SECONDS: continue`
\* (a stored time is never 0, so `last_notified` is falsy only when it is NULL)
InCooldown(last, at) == last # NULL /\ (at - last[1]) < Cooldown

\* index of the first user at or after position j that is not skipped (0: none)
RECURSIVE NextDue(_, _, _)
NextDue(rows, j, at) ==
    IF j > Len(rows) THEN 0
    ELSE IF ~InCooldown(rows[j].last, at) THEN j
    ELSE NextDue(rows, j + 1, at)

\* the receive loop calls the sell callback for one Sell trade and awaits it
\* (lighter_ws.py 260-264); the callback is notify_sell
NotifySell(t) ==
    /\ variant = "push"
    /\ Settled
    /\ t = 1
    /\ pc[t] = "idle"
    /\ pc' = [pc EXCEPT ![t] = "users"]
    /\ gh' = [gh EXCEPT ![t] = [NoGh EXCEPT !.did = {"subs"}, !.disp = "open"]]
    /\ UNCHANGED <<variant, now, users, stateFile, jobLock, loc, prevRaw, delivAt, tooSoon, probe, conn, phase, window, ws, reporter>>

\* the `for user in users` loop from position j up to its next await
NextUser(t, j, l, g) ==
    LET k == NextDue(l.subs, j, l.at) IN
    IF k # 0
    THEN /\ pc' = [pc EXCEPT ![t] = "post"]
         /\ loc' = [loc EXCEPT ![t] = [l EXCEPT !.j = k]]
         /\ gh' = [gh EXCEPT ![t] = [g EXCEPT !.attempted = @ \cup {l.subs[k].user_id}]]
         /\ UNCHANGED <<stateFile, jobLock>>
    ELSE Finish(t, [l EXCEPT !.j = Len(l.subs) + 1], [g EXCEPT !.disp = "closed"])

\* get_all_users returns (or raises); the message is formatted: float(usd) raises
\* ValueError for a trade without usd_amount (_usd is 0.0, usd is "?")
UsersReturn(t) ==
    /\ Settled
    /\ pc[t] = "users"
    /\ \E ok \in BOOLEAN, usdOk \in BOOLEAN :
        LET rows == GetAllUsers(users) IN
        IF ~ok
        THEN usdOk /\ Raise(t, loc[t], gh[t])
        ELSE IF rows = <<>>
        THEN usdOk /\ Finish(t, loc[t], [gh[t] EXCEPT !.disp = "closed"])
        ELSE LET l == [loc[t] EXCEPT !.subs = rows, !.at = now, !.j = 0]
                 g == [gh[t] EXCEPT !.cooling = CoolingAt(users, now),
                                    !.due = DueAt(users, now)]
             IN  IF usdOk THEN NextUser(t, 1, l, g) ELSE Raise(t, l, g)
    /\ UNCHANGED <<variant, now, users, prevRaw, delivAt, tooSoon, probe, conn, phase, window, ws, reporter>>

\* 200: status_code == 200; error: any other response (429, 5xx, 4xx);
\* failed: client.post raises httpx.RequestError
PostOutcomes == {"200", "error", "failed"}

\* client.post returns a response, or raises httpx.RequestError; nothing is retried
PostReturn(t) ==
    /\ Settled
    /\ pc[t] = "post"
    /\ LET l == loc[t]
           g == gh[t]
           u == l.subs[l.j].user_id
       IN \E outcome \in PostOutcomes :
          IF outcome = "200"
          THEN /\ pc' = [pc EXCEPT ![t] = "stamp"]
               /\ loc' = loc
               /\ gh' = [gh EXCEPT ![t] = [g EXCEPT !.confirmed = @ \cup {u}]]
               /\ Delivered(u)
               /\ UNCHANGED <<stateFile, jobLock>>
          ELSE /\ NextUser(t, l.j + 1, l,
                           [g EXCEPT !.early = IF probe = "retry" /\ outcome = "error"
                                               THEN @ \cup {u} ELSE @])
               /\ UNCHANGED <<delivAt, tooSoon>>
    /\ UNCHANGED <<variant, now, users, prevRaw, probe, conn, phase, window, ws, reporter>>

\* update_last_notification(user_id) stamps time.time(), or raises
UpdateLastNotification(t) ==
    /\ Settled
    /\ pc[t] = "stamp"
    /\ LET l == loc[t]
           g == gh[t]
           u == l.subs[l.j].user_id
       IN \E ok \in BOOLEAN :
          IF ok
          THEN /\ users' = [users EXCEPT ![u] = MarkRow(@, now)]
               /\ NextUser(t, l.j + 1, l, [g EXCEPT !.stamped = @ \cup {u}])
          ELSE /\ users' = users
               /\ Raise(t, l, g)
    /\ UNCHANGED <<variant, now, prevRaw, delivAt, tooSoon, probe, conn, phase, window, ws, reporter>>

\* ------------------------------------------------- push: the connection
\* the connection attempts fail only in the run that follows the reconnect loop
ConnectOutcomes == IF probe = "conn" THEN BOOLEAN ELSE {TRUE}

NextBackoffUncapped(backoff) == backoff * BackoffFactor

\* backoff = min(backoff * _BACKOFF_FACTOR, _MAX_BACKOFF)
NextBackoff(backoff) ==
    IF backoff * BackoffFactor < MaxBackoff THEN backoff * BackoffFactor ELSE MaxBackoff

\* `except Exception` of _run: sleep(backoff), then the backoff grows
Backoff(c) ==
    [c EXCEPT !.state = "sleep", !.slept = c.backoff,
              !.backoff = NextBackoff(c.backoff), !.errors = @ + 1]

\* _connect_and_listen up to the receive loop: connect and subscribe (a handler
\* that was cancelled with the last connection is over by then)
Connect ==
    /\ variant = "push"
    /\ conn.state = "down"
    /\ ws.pc = "idle"
    /\ \E ok \in ConnectOutcomes :
        IF ok THEN conn' = [conn EXCEPT !.state = "open", !.age = 0]
        ELSE conn.errors < MaxErrors /\ conn' = Backoff(conn)
    /\ UNCHANGED <<variant, now, users, stateFile, jobLock, pc, loc, gh, prevRaw, delivAt,
                   tooSoon, probe, window, ws, reporter, phase>>

\* the receive loop raises (connection lost) while it waits for a message
ConnectionError ==
    /\ conn.state \in {"open", "broken"}
    /\ ws.pc = "idle"
    /\ conn.errors < MaxErrors
    /\ conn' = Backoff(conn)
    /\ UNCHANGED <<variant, now, users, stateFile, jobLock, pc, loc, gh, prevRaw, delivAt,
                   tooSoon, probe, window, ws, reporter, phase>>

\* _connect_and_listen returns: the server closed the connection normally and the
\* receive loop ran out of messages
CleanReturn ==
    /\ conn.state = "open"
    /\ ws.pc = "idle"
    /\ conn' = [conn EXCEPT !.state = "down", !.backoff = MinBackoff, !.errors = 0]
    /\ UNCHANGED <<variant, now, users, stateFile, jobLock, pc, loc, gh, prevRaw, delivAt,
                   tooSoon, probe, window, ws, reporter, phase>>

AgedOutNever(age) == FALSE

\* the timeout of asyncio.wait_for(self._receive_loop(ws), MAX_CONNECTION_AGE)
AgedOut(age) == age >= MaxConnectionAge

\* time passes on the open connection, up to the timeout of wait_for
ConnectionAges ==
    /\ conn.state = "open"
    /\ ~AgedOut(conn.age)
    /\ conn.age <= MaxConnectionAge
    /\ conn' = [conn EXCEPT !.age = @ + 1]
    /\ UNCHANGED <<variant, now, users, stateFile, jobLock, pc, loc, gh, prevRaw, delivAt,
                   tooSoon, probe, window, ws, reporter, phase>>

\* MAX_CONNECTION_AGE is reached: wait_for cancels the receive loop, with the
\* handler if one is awaiting, asyncio.TimeoutError is caught, the connection is
\* closed and _connect_and_listen returns to _run, which resets the backoff
Recycle ==
    /\ conn.state = "open"
    /\ AgedOut(conn.age)
    /\ conn' = [conn EXCEPT !.state = "down", !.backoff = MinBackoff, !.errors = 0]
    /\ ws' = IF ws.pc \in {"store", "purge", "pong"} THEN [ws EXCEPT !.pc = "cancelled"]
             ELSE ws
    /\ UNCHANGED <<variant, now, users, stateFile, jobLock, pc, loc, gh, prevRaw, delivAt,
                   tooSoon, probe, window, reporter, phase>>

\* the sleep of _run is over: the loop connects again
Wake ==
    /\ conn.state = "sleep"
    /\ conn' = [conn EXCEPT !.state = "down"]
    /\ UNCHANGED <<variant, now, users, stateFile, jobLock, pc, loc, gh, prevRaw, delivAt,
                   tooSoon, probe, window, ws, reporter, phase>>

\* an exception of the handler that escaped the receive loop, for comparison
ReceiveLoopRaises(c) == Backoff(c)

\* `except Exception: logger.exception(...)` of _receive_loop: the connection and
\* the reconnect loop are as before
ReceiveLoopExcept(c) == c

MessageTypes == {"ping", "other", "nonjson"}

IsPingNever(msg_type) == FALSE

\* `if msg_type == "ping"`
IsPing(msg_type) == msg_type = "ping"

\* _handle_message for a message that carries no trades: a ping is answered, a
\* body that is not JSON and every other type are ignored
HandleControl ==
    /\ variant = "push"
    /\ Settled
    /\ conn.state = "open"
    /\ ws.pc = "idle"
    /\ \E msg_type \in MessageTypes :
        ws' = [ws EXCEPT !.msg = msg_type,
                         !.pc = IF msg_type # "nonjson" /\ IsPing(msg_type) THEN "pong"
                                ELSE "handled"]
    /\ UNCHANGED <<variant, now, users, stateFile, jobLock, pc, loc, gh, prevRaw, delivAt,
                   tooSoon, probe, window, reporter, conn, phase>>

\* ws.send of the pong returns, or raises because the connection is lost: the
\* receive loop logs it and its next receive raises
PongReturn ==
    /\ ws.pc = "pong"
    /\ conn.state = "open"
    /\ \E ok \in BOOLEAN :
        IF ok
        THEN /\ ws' = [ws EXCEPT !.pc = "handled", !.pongs = @ + 1]
             /\ conn' = conn
        ELSE /\ ws' = [ws EXCEPT !.pc = "dropped"]
             /\ conn' = [conn EXCEPT !.state = "broken"]
    /\ UNCHANGED <<variant, now, users, stateFile, jobLock, pc, loc, gh, prevRaw, delivAt,
                   tooSoon, probe, window, reporter, phase>>

\* ------------------------------------------------- push: the trade window
\* the tracked account (settings.lighter_account_id) and the accounts of the feed
Account == 1
Accounts == {1, 2}

\* usd_amount as the exchange sends it: a number (or numeric string), a string that
\* is no number, or nothing
Number(n) == [kind |-> "number", value |-> n]
Text == [kind |-> "text", value |-> 0]
Missing == [kind |-> "missing", value |-> 0]

\* the trades the exchange reports for the tracked account
FeedTrades ==
    { [trade_id |-> 1, bid_account_id |-> 1, ask_account_id |-> 2,
       usd_amount |-> Number(100), market_id |-> 1],
      [trade_id |-> 2, bid_account_id |-> 2, ask_account_id |-> 1,
       usd_amount |-> Number(50), market_id |-> 1],
      [trade_id |-> 3, bid_account_id |-> 2, ask_account_id |-> 1,
       usd_amount |-> Number(25), market_id |-> 1],
      [trade_id |-> 4, bid_account_id |-> 1, ask_account_id |-> 2,
       usd_amount |-> Number(25), market_id |-> 2] }

\* the same with a trade in which the tracked account is on neither side
MixedTrades ==
    FeedTrades \cup
    { [trade_id |-> 5, bid_account_id |-> 2, ask_account_id |-> 2,
       usd_amount |-> Number(50), market_id |-> 2] }

\* every raw trade of a small feed, well-formed or not
RawTrades ==
    [trade_id : {1, 2}, bid_account_id : Accounts, ask_account_id : Accounts,
     usd_amount : {Number(25), Text, Missing}, market_id : {1}]

\* the trade updates: one trade of the tracked account (a buy or a sell in the run
\* that follows the reports), or, in the run that feeds raw trades of every shape
\* and in the run that follows the batches, up to MaxMessage of them
Messages ==
    IF probe = "feed" THEN SeqsUpTo(RawTrades, MaxMessage) \ {<<>>}
    ELSE IF probe = "batch" THEN SeqsUpTo(MixedTrades, MaxMessage) \ {<<>>}
    ELSE IF probe = "reports" THEN {<<tr>> : tr \in {x \in FeedTrades : x.trade_id <= 2}}
    ELSE {<<tr>> : tr \in FeedTrades}

\* trade.get("timestamp"), 0 when it is missing: any time up to now, or, in the run
\* that follows the batches, always missing
Timestamps == IF probe = "batch" THEN {0} ELSE 0..now

\* a faulty resolution, for comparison: the ask side is looked at first
ResolveSideAskFirst(trade, account_id_int) ==
    IF trade.ask_account_id = account_id_int THEN "sell"
    ELSE IF trade.bid_account_id = account_id_int THEN "buy"
    ELSE "unknown"

\* _resolve_side
ResolveSide(trade, account_id_int) ==
    IF trade.bid_account_id = account_id_int THEN "buy"
    ELSE IF trade.ask_account_id = account_id_int THEN "sell"
    ELSE "unknown"

\* float(trade.get("usd_amount") or 0): a missing amount is 0, a string that is no
\* number raises ValueError
Parses(usd_amount) == usd_amount.kind # "text"

Float(usd_amount) == IF usd_amount.kind = "number" THEN usd_amount.value ELSE 0

\* the enriched trade: the raw fields and the helpers; _ts is the exchange's
\* timestamp, or the arrival time when the timestamp is missing or 0
Enriched(tr, timestamp, at) ==
    [trade_id |-> tr.trade_id, bid |-> tr.bid_account_id, ask |-> tr.ask_account_id,
     side |-> ResolveSide(tr, Account), usd |-> Float(tr.usd_amount),
     market |-> tr.market_id,
     ts |-> IF timestamp # 0 THEN timestamp ELSE at, received_at |-> at]

\* _handle_message for a trade update, up to the call of store_trades (the trades
\* of one message carry the same timestamp); an exception of the enrichment
\* leaves the handler before anything is stored
HandleMessage ==
    /\ variant = "push"
    /\ Settled
    /\ conn.state = "open"
    /\ ws.pc = "idle"
    /\ Cardinality(window) < MaxWindow
    /\ \E msg \in Messages, timestamp \in Timestamps :
        IF \A k \in 1..Len(msg) : Parses(msg[k].usd_amount)
        THEN ws' = [ws EXCEPT !.pc = "store", !.msg = "trades", !.raw = Len(msg),
                              !.norm = "ok",
                              !.members = {Enriched(msg[k], timestamp, now) :
                                             k \in 1..Len(msg)}]
        ELSE ws' = [ws EXCEPT !.pc = "dropped", !.msg = "trades", !.raw = Len(msg),
                              !.norm = "raised"]
    /\ conn' = IF ws'.pc = "dropped" THEN ReceiveLoopExcept(conn) ELSE conn
    /\ UNCHANGED <<variant, now, users, stateFile, jobLock, pc, loc, gh, prevRaw, delivAt,
                   tooSoon, probe, phase, window, reporter>>

\* a faulty store, for comparison: one ZADD per trade, of which the first has run
ZaddFirst(set, members) ==
    IF members = {} THEN set
    ELSE set \cup {CHOOSE e \in members : \A f \in members : e.trade_id <= f.trade_id}

\* `await r.zadd(key, mapping)`: one command for all the trades of the batch
Zadd(set, members) == set \cup members

\* store_trades: ZADD of the members with score _ts (a member already present keeps
\* its place); purge_old_trades then computes its cutoff.  A failed ZADD raises
\* into the receive loop, which logs it and drops the message
StoreTrades ==
    /\ Settled
    /\ ws.pc = "store"
    /\ \E ok \in BOOLEAN :
        IF ok
        THEN /\ window' = Zadd(window, ws.members)
             /\ ws' = [ws EXCEPT !.pc = "purge", !.cutoff = now - TradeRetention]
        ELSE /\ ws' = [ws EXCEPT !.pc = "dropped"]
             /\ window' = window
    /\ conn' = IF ws'.pc = "dropped" THEN ReceiveLoopExcept(conn) ELSE conn
    /\ UNCHANGED <<variant, now, users, stateFile, jobLock, pc, loc, gh, prevRaw, delivAt,
                   tooSoon, probe, phase, reporter>>

\* a faulty test, for comparison: every trade that is no buy counts as a sell
IsSellOrUnknown(side) == side # "buy"

\* `if side == "sell": sell_trades.append(enriched)`
IsSell(side) == side = "sell"

\* ZREMRANGEBYSCORE key -inf cutoff: both ends are inclusive
Expired(e, cutoff) == e.ts <= cutoff

\* purge_old_trades: the removal and the count it returns; the handler then calls
\* the sell callback for each trade of sell_trades
PurgeOldTrades ==
    /\ Settled
    /\ ws.pc = "purge"
    /\ \E ok \in BOOLEAN :
        IF ok
        THEN LET gone == {e \in window : Expired(e, ws.cutoff)}
             IN  /\ window' = window \ gone
                 /\ ws' = [ws EXCEPT !.pc = "handled", !.removed = Cardinality(gone),
                                     !.purged = IF ws.cutoff > @ THEN ws.cutoff ELSE @,
                                     !.called = {e \in ws.members : IsSell(e.side)}]
        ELSE /\ ws' = [ws EXCEPT !.pc = "dropped"]
             /\ window' = window
    /\ conn' = IF ws'.pc = "dropped" THEN ReceiveLoopExcept(conn) ELSE conn
    /\ UNCHANGED <<variant, now, users, stateFile, jobLock, pc, loc, gh, prevRaw, delivAt,
                   tooSoon, probe, phase, reporter>>

\* the handler is over (the sell callbacks are notify_sell, above)
HandlerReturn ==
    /\ ws.pc \in {"handled", "dropped", "cancelled"}
    /\ ws' = [NoWs EXCEPT !.purged = ws.purged]
    /\ UNCHANGED <<variant, now, users, stateFile, jobLock, pc, loc, gh, prevRaw, delivAt,
                   tooSoon, probe, conn, phase, window, reporter>>

\* ZRANGEBYSCORE orders by score; members of equal score are ordered here by
\* trade_id, then by arrival
MemberBefore(a, b) ==
    \/ a.ts < b.ts
    \/ a.ts = b.ts /\ a.trade_id < b.trade_id
    \/ a.ts = b.ts /\ a.trade_id = b.trade_id /\ a.received_at < b.received_at

RECURSIVE Ascending(_)
Ascending(S) ==
    IF S = {} THEN <<>>
    ELSE LET first == CHOOSE a \in S : \A b \in S \ {a} : MemberBefore(a, b)
         IN  <<first>> \o Ascending(S \ {first})

\* get_recent_trades: ZRANGEBYSCORE key min_score +inf
GetRecentTrades(min_score) == Ascending({e \in window : e.ts >= min_score})

\* ------------------------------------------------- push: the report job
Markets(trades) == {trades[k].market : k \in 1..Len(trades)}

RECURSIVE Volume(_, _, _)
Volume(trades, mkt, side) ==
    IF trades = <<>> THEN 0
    ELSE (IF Head(trades).market = mkt /\ Head(trades).side = side
          THEN Head(trades).usd ELSE 0) + Volume(Tail(trades), mkt, side)

RECURSIVE Trades(_, _, _)
Trades(trades, mkt, side) ==
    IF trades = <<>> THEN 0
    ELSE (IF Head(trades).market = mkt /\ Head(trades).side = side THEN 1 ELSE 0)
         + Trades(Tail(trades), mkt, side)

MarketStats(trades, mkt) ==
    [market |-> mkt,
     buy_count |-> Trades(trades, mkt, "buy"), buy_vol |-> Volume(trades, mkt, "buy"),
     sell_count |-> Trades(trades, mkt, "sell"), sell_vol |-> Volume(trades, mkt, "sell")]

\* a faulty total, for comparison: a trade of unknown side is added to both totals
RECURSIVE TotalVolumeAnySide(_, _)
TotalVolumeAnySide(trades, side) ==
    IF trades = <<>> THEN 0
    ELSE (IF Head(trades).side \in {side, "unknown"} THEN Head(trades).usd ELSE 0)
         + TotalVolumeAnySide(Tail(trades), side)

\* total_buy_volume / total_sell_volume: accumulated over the trades, next to the
\* statistics of the markets
RECURSIVE TotalVolume(_, _)
TotalVolume(trades, side) ==
    IF trades = <<>> THEN 0
    ELSE (IF Head(trades).side = side THEN Head(trades).usd ELSE 0)
         + TotalVolume(Tail(trades), side)

\* sorted(market_stats.items()): market ids below 10 sort as their strings do
RECURSIVE SortedStats(_, _)
SortedStats(trades, mkts) ==
    IF mkts = {} THEN <<>>
    ELSE LET mkt == CHOOSE x \in mkts : \A y \in mkts : x <= y
         IN  <<MarketStats(trades, mkt)>> \o SortedStats(trades, mkts \ {mkt})

\* the report text: the two totals, and the per-market lines, which are written
\* only when more than one market traded
TradeReport(trades) ==
    [buy |-> TotalVolume(trades, "buy"),
     sell |-> TotalVolume(trades, "sell"),
     lines |-> IF Cardinality(Markets(trades)) > 1
               THEN SortedStats(trades, Markets(trades))
               ELSE <<>>]

NoTradesNever(trades) == FALSE

\* `if not trades: return`
NoTrades(trades) == trades = <<>>

\* the interval job fires (one instance at a time): _post_trade_report up to the
\* call of get_recent_trades; main sets the bot reference before the scheduler
\* starts
PostTradeReport ==
    /\ variant = "push"
    /\ Settled
    /\ reporter.pc = "idle"
    /\ reporter' = [NoReporter EXCEPT !.pc = "read",
                                      !.min_score = now - reporter.interval,
                                      !.purged = ws.purged,
                                      !.interval = reporter.interval,
                                      !.prev = reporter.prev]
    /\ UNCHANGED <<variant, now, users, stateFile, jobLock, pc, loc, gh, prevRaw, delivAt,
                   tooSoon, probe, conn, phase, window, ws>>

\* get_recent_trades returns or raises; the report is built and send_message called
ReadReturn ==
    /\ Settled
    /\ reporter.pc = "read"
    /\ \E ok \in BOOLEAN :
        LET trades == GetRecentTrades(reporter.min_score)
        IN  IF ~ok
            THEN reporter' = [reporter EXCEPT !.pc = "quiet", !.got = "error"]
            ELSE IF NoTrades(trades)
            THEN reporter' = [reporter EXCEPT !.pc = "quiet",
                                              !.got = IF Len(trades) = 0 THEN "empty"
                                                      ELSE "trades",
                                              !.trades = trades]
            ELSE reporter' = [reporter EXCEPT !.pc = "send",
                                              !.got = IF Len(trades) = 0 THEN "empty"
                                                      ELSE "trades",
                                              !.trades = trades,
                                              !.message = TradeReport(trades),
                                              !.sends = @ + 1]
    /\ UNCHANGED <<variant, now, users, stateFile, jobLock, pc, loc, gh, prevRaw, delivAt,
                   tooSoon, probe, conn, phase, window, ws>>

\* send_message returns or raises; a failure is logged, the job ends either way
SendReturn ==
    /\ reporter.pc = "send"
    /\ \E ok \in BOOLEAN : reporter' = [reporter EXCEPT !.pc = "posted"]
    /\ UNCHANGED <<variant, now, users, stateFile, jobLock, pc, loc, gh, prevRaw, delivAt,
                   tooSoon, probe, conn, phase, window, ws>>

\* the trades that add to a count of the report: those whose side is buy or sell
Counted(trades) ==
    {trades[k] : k \in {n \in 1..Len(trades) : trades[n].side \in {"buy", "sell"}}}

\* the job is over; the next interval can fire it again
ReportReturn ==
    /\ reporter.pc \in {"quiet", "posted"}
    /\ reporter' = [NoReporter EXCEPT
                       !.interval = reporter.interval,
                       !.prev = IF probe = "reports"
                                THEN [at |-> reporter.min_score + reporter.interval,
                                      read |-> now,
                                      counted |-> Counted(reporter.trades)]
                                ELSE @]
    /\ UNCHANGED <<variant, now, users, stateFile, jobLock, pc, loc, gh, prevRaw, delivAt,
                   tooSoon, probe, conn, phase, window, ws>>

\* the trade window of the push program: receive loop and report job
NextWindow ==
    \/ Tick
    \/ Connect
    \/ HandleMessage
    \/ StoreTrades
    \/ PurgeOldTrades
    \/ HandlerReturn
    \/ PostTradeReport
    \/ ReadReturn
    \/ SendReturn
    \/ ReportReturn

\* the receive loop of the push program with its reconnect loop, the clock stopped
NextConn ==
    \/ Connect
    \/ ConnectionError
    \/ CleanReturn
    \/ ConnectionAges
    \/ Recycle
    \/ Wake
    \/ HandleControl
    \/ PongReturn
    \/ HandleMessage
    \/ StoreTrades
    \/ PurgeOldTrades
    \/ HandlerReturn

\* the message handler fed with raw trades of every shape, the clock stopped
NextFeed ==
    \/ Connect
    \/ HandleMessage
    \/ StoreTrades
    \/ PurgeOldTrades
    \/ HandlerReturn

NextPush ==
    \/ Tick
    \/ Commands
    \/ \E t \in Tasks : NotifySell(t)
    \/ \E t \in Tasks : UsersReturn(t)
    \/ \E t \in Tasks : PostReturn(t)
    \/ \E t \in Tasks : UpdateLastNotification(t)
    \/ \E t \in Tasks : Return(t)

NextPoll ==
    \/ Tick
    \/ Commands
    \/ \E t \in Tasks : RunOnce(t)
    \/ \E t \in Tasks : FetchReturn(t)
    \/ \E t \in Tasks : AlertReturn(t)
    \/ \E t \in Tasks : ListReturn(t)
    \/ \E t \in Tasks : PushReturn(t)
    \/ \E t \in Tasks : MarkNotified(t)
    \/ \E t \in Tasks : SummaryReturn(t)
    \/ \E t \in Tasks : Return(t)

\* poll without subscribers: nobody registers, so no push is sent
NextIngest ==
    \/ Tick
    \/ \E t \in Tasks : RunOnce(t)
    \/ \E t \in Tasks : FetchReturn(t)
    \/ \E t \in Tasks : AlertReturn(t)
    \/ \E t \in Tasks : ListReturn(t)
    \/ \E t \in Tasks : SummaryReturn(t)
    \/ \E t \in Tasks : Return(t)

\* poll without subscribers, with the shutdown of the process
NextStop ==
    \/ Tick
    \/ \E t \in Tasks : RunOnce(t)
    \/ \E t \in Tasks : FetchReturn(t)
    \/ \E t \in Tasks : AlertReturn(t)
    \/ \E t \in Tasks : ListReturn(t)
    \/ \E t \in Tasks : SummaryReturn(t)
    \/ \E t \in Tasks : Return(t)
    \/ Shutdown
    \/ Close
    \/ \E t \in Tasks : Abandon(t)

Next == NextPoll \/ NextPush

\* either program, in every environment
Spec == Init /\ [][Next]_vars

\* the poll program with the previous fetch's batch recorded, nobody registered
SpecReplay == InitWith("poll", "replay") /\ [][NextIngest]_vars

\* the push program with the confirmed deliveries recorded
SpecDeliv == InitWith("push", "deliv") /\ [][NextPush]_vars

\* the push program with the given-up sends recorded
SpecRetry == InitWith("push", "retry") /\ [][NextPush]_vars

\* the poll program fed with trades of any size, nobody registered
SpecSizes == InitWith("poll", "sizes") /\ [][NextIngest]_vars

\* the trade window of the push program: nobody registers, notify_sell idles
SpecWindow == InitWith("push", "none") /\ [][NextWindow]_vars

\* the trade window under every configured report interval
SpecConfig == InitWith("push", "config") /\ [][NextWindow]_vars

\* the trade window fed with batches of trades of every side
SpecBatch == InitWith("push", "batch") /\ [][NextWindow]_vars

\* the trade window with the previous report recorded
SpecReports == InitWith("push", "reports") /\ [][NextWindow]_vars

\* the poll program with the trades of all earlier fetches recorded
SpecSeen == InitWith("poll", "seen") /\ [][NextIngest]_vars

\* the poll program and its shutdown, nobody registered
SpecStop == InitWith("poll", "none") /\ [][NextStop]_vars

\* the message handler of the push program on a feed of raw trades
SpecFeed == InitWith("push", "feed") /\ [][NextFeed]_vars

\* the connection of the push program: connects fail, the connection is lost
SpecConn == InitWith("push", "conn") /\ [][NextConn]_vars

\* ------------------------------------------------------------ properties
\* the subscribers the dispatch of task t found eligible
Listed(t) == {loc[t].subs[k] : k \in 1..Len(loc[t].subs)}

DispatchEligible(t) ==
    IF variant = "poll" THEN {r.user_id : r \in Listed(t)}
    ELSE {r.user_id : r \in {q \in Listed(t) : ~InCooldown(q.last, loc[t].at)}}

DispatchOver(t) == gh[t].disp \in {"closed", "aborted"}

\* C1 - Cooldown enforcement: a subscriber whose lastNotifiedAt is T gets no delivery
\* attempt for a Sell event handled strictly between T and T + cooldown, and does get
\* one for a Sell event handled at or after T + cooldown.
C1_CooldownEnforcement ==
    \A t \in Tasks :
        /\ gh[t].cooling \cap gh[t].attempted = {}
        /\ DispatchOver(t) => gh[t].due \subseteq gh[t].attempted

\* C2 - Idempotent ingestion: when the same raw batch is fetched by two consecutive
\* cycles, no trade the first cycle alerted gets a second Sell alert, and the
\* persisted watermark is advanced at most once.
C2_IdempotentIngestion ==
    \A t \in Tasks :
        /\ \A k \in DOMAIN gh[t].bcast :
              gh[t].bcast[k] > 0 => loc[t].fresh[k] \notin gh[t].again
        /\ pc[t] = "done" /\ gh[t].advanced => ~Advanced(gh[t].wm0, stateFile)

\* C3 - Watermark monotonicity: whatever the batches and the state-file failures, the
\* persisted watermark after a cycle is not below the one persisted before it.
C3_WatermarkMonotonic ==
    \A t \in Tasks :
        pc[t] \in {"done", "raised"} /\ gh[t].wm0 # NULL /\ stateFile # NULL
            => stateFile[1] >= gh[t].wm0[1]

\* C4 - Partial failure isolation: within one dispatch, once a delivery was started,
\* every eligible subscriber is attempted whatever happened to the others, and a
\* dispatch that ran to its end stamped every subscriber whose delivery was confirmed.
C4_PartialFailureIsolation ==
    \A t \in Tasks :
        DispatchOver(t) /\ gh[t].attempted # {}
            => /\ DispatchEligible(t) \subseteq gh[t].attempted
               /\ gh[t].disp = "closed" => gh[t].confirmed \subseteq gh[t].stamped

\* C5 - At most one ingestion cycle is inside the body of run_once: the lock is held
\* exactly while one cycle is inside, and a call that found the lock held has returned
\* without entering (it does not wait for the lock).
C5_SingleCycle ==
    /\ Cardinality({t \in Tasks : pc[t] \in InBody}) <= 1
    /\ jobLock <=> \E t \in Tasks : pc[t] \in InBody
    /\ \A t \in Tasks : gh[t].sawLocked => pc[t] = "skipped"

C5_Witness ==
    \E t1, t2 \in Tasks :
        /\ t1 # t2
        /\ pc[t1] \in InBody
        /\ pc[t2] = "skipped"
        /\ gh[t2].sawLocked

\* C6 - A tick that starts while the previous tick is still running is skipped
\* entirely: the call returns with no fetch, no alert or summary, no watermark read
\* or write and no subscriber touched.
C6_SkippedTickNoEffect ==
    [][\A t \in Tasks :
          pc[t] = "idle" /\ pc'[t] # "idle" /\ jobLock
              => /\ pc'[t] = "skipped"
                 /\ gh'[t].did = {}
                 /\ UNCHANGED <<users, stateFile, jobLock, loc, now>>]_vars

C6_Witness ==
    \E t1, t2 \in Tasks :
        /\ pc[t1] = "mark"
        /\ pc[t2] = "skipped"
        /\ gh[t2].did = {}
        /\ stateFile # NULL

\* C7 - A batch holding two identical Sell records (same timestamp, same USD size,
\* nothing else to tell them apart) leads to exactly one Sell alert.
C7_DuplicateSellOneAlert ==
    \A t \in Tasks :
        pc[t] = "done" =>
            \A i, j \in DOMAIN gh[t].bcast :
                i < j /\ loc[t].fresh[i] = loc[t].fresh[j]
                      /\ loc[t].fresh[i].direction = "Sell"
                    => gh[t].bcast[i] + gh[t].bcast[j] <= 1

\* C8 - Stamp only on confirmed delivery: a subscriber's lastNotifiedAt is written
\* only by the stamp step of a dispatch in which the push collaborator confirmed the
\* delivery to that subscriber; every other step leaves a stamp as it was (or clears
\* it, when the subscriber unregisters).
C8_StampOnlyOnConfirmed ==
    [][\A u \in UserIds :
          users'[u].last # users[u].last /\ users'[u].last # NULL
              => \E t \in Tasks :
                    /\ pc[t] \in {"mark", "stamp"}
                    /\ loc[t].subs[loc[t].j].user_id = u
                    /\ u \in gh[t].confirmed]_vars

C8_Witness ==
    \E t \in Tasks, u, v \in UserIds :
        /\ gh[t].disp = "closed"
        /\ u \in gh[t].stamped /\ users[u].last # NULL
        /\ v \in gh[t].attempted \ gh[t].confirmed
        /\ users[v].reg /\ users[v].last = NULL

\* C9 - Every admitted Sell trade is broadcast: when the cycle is over, exactly one
\* broadcast send was attempted for each Sell trade that passed the watermark filter.
C9_EverySellBroadcastOnce ==
    \A t \in Tasks :
        pc[t] \in {"done", "raised"} =>
            \A k \in DOMAIN gh[t].bcast :
                loc[t].fresh[k].direction = "Sell" => gh[t].bcast[k] = 1

\* C10 - No subscriber is notified twice inside one cooldown: no user gets two
\* confirmed personal deliveries less than one cooldown apart.
C10_NoDoubleDelivery == tooSoon = {}

\* number of occurrences of x in seq
Count(seq, x) == Cardinality({k \in 1..Len(seq) : seq[k] = x})

\* C11 - The trades admitted in a cycle are exactly the fetched trades whose timestamp
\* is strictly greater than the watermark loaded for that cycle (all of them when no
\* watermark was loaded), in ascending timestamp order.
C11_AdmittedTrades ==
    \A t \in Tasks :
        "loadwm" \in gh[t].did =>
            LET f == loc[t].fresh
                b == prevRaw.batch
                w == gh[t].loaded
            IN  /\ \A k \in 1..(Len(f) - 1) : f[k].ts <= f[k + 1].ts
                /\ \A tr \in Trade :
                      Count(f, tr) = IF w = NULL \/ tr.ts > w[1] THEN Count(b, tr) ELSE 0

C11_Witness ==
    \E t \in Tasks :
        /\ "loadwm" \in gh[t].did
        /\ gh[t].loaded = Some(1)
        /\ Len(prevRaw.batch) = 2
        /\ prevRaw.batch[1].ts = 2
        /\ prevRaw.batch[2].ts = 1
        /\ Len(loc[t].fresh) = 1

\* C12 - If persisting the watermark fails at the end of a cycle, the watermark does
\* not advance: the state file still holds the old value, which the next cycle loads.
C12_FailedSaveKeepsWatermark ==
    \A t \in Tasks :
        pc[t] = "done" /\ "savefail" \in gh[t].did => stateFile = gh[t].wm0

\* C13 - When the feed's payload fails schema validation or is not JSON, the cycle
\* drops the whole batch: it ends at once with no alert, no summary, no subscriber
\* touched, the persisted watermark unchanged and the lock free for the next tick.
C13_InvalidPayloadDropped ==
    \A t \in Tasks :
        gh[t].feed \in {"invalid", "nonjson"} =>
            /\ pc[t] = "done"
            /\ gh[t].did = {"fetch"}
            /\ loc[t] = NoLoc
            /\ stateFile = gh[t].wm0
            /\ ~jobLock

C13_Witness ==
    \E t \in Tasks :
        /\ gh[t].feed = "invalid"
        /\ pc[t] = "done"
        /\ stateFile # NULL
        /\ \E u \in UserIds : users[u].reg

\* C15 - fetch_trades issues at most max_retries requests under any mix of 429, 5xx
\* and timeout outcomes, and when no attempt succeeded it returns an empty list (the
\* cycle ends normally with nothing admitted).
C15_FetchBoundedAndEmpty ==
    \A t \in Tasks :
        /\ pc[t] = "fetch" => loc[t].attempt < MaxRetries
        /\ gh[t].feed \notin {"none", "ok"} => pc[t] = "done" /\ loc[t].fresh = <<>>

\* C14 - A personal push send that gets a rate-limit or other non-2xx response is
\* retried: no send is given up after a single non-2xx response; the attempts for one
\* subscriber and Sell event never exceed the configured maximum; and a subscriber
\* whose send was given up is not stamped in that dispatch.
C14_PushRetried ==
    \A t \in Tasks :
        /\ gh[t].early = {}
        /\ pc[t] = "push" => loc[t].attempt <= MaxRetries
        /\ gh[t].early \cap gh[t].stamped = {}

\* C16 - A broadcast-channel send failure is swallowed: whatever the outcome of the
\* one send, an alert send is followed by the personal dispatch of the same trade and
\* a summary send by the watermark write; the send is not repeated and the cycle is
\* not aborted.
C16_BroadcastFailureSwallowed ==
    [][\A t \in Tasks :
          /\ pc[t] = "alert" /\ pc'[t] # "alert"
                => /\ pc'[t] = "list"
                   /\ "subs" \in gh'[t].did
                   /\ gh'[t].bcast = gh[t].bcast
          /\ pc[t] = "summary" /\ pc'[t] # "summary"
                => /\ pc'[t] = "done"
                   /\ "savewm" \in gh'[t].did
                   /\ gh'[t].bcast = gh[t].bcast]_vars

C16_Witness ==
    \E t \in Tasks :
        /\ gh[t].lost
        /\ pc[t] = "list"
        /\ gh[t].bcast[loc[t].i] = 1
        /\ Len(loc[t].fresh) > loc[t].i
        /\ \E u \in UserIds : users[u].reg

\* the trades the report job read are exactly Buy $100, Sell $50 and Sell $25 on
\* market 1
ScenarioRead ==
    /\ reporter.got = "trades"
    /\ Len(reporter.trades) = 3
    /\ {reporter.trades[k].trade_id : k \in 1..3} = {1, 2, 3}

\* C17: when the window of a report holds exactly Buy $100, Sell $50 and Sell $25,
\* all on market 1, the report that is sent shows total buy volume 100, total sell
\* volume 75 and a line for market 1 with 1 buy ($100) and 2 sells ($75).
C17_ReportScenario ==
    reporter.pc = "send" /\ ScenarioRead =>
        /\ reporter.message.buy = 100
        /\ reporter.message.sell = 75
        /\ reporter.message.lines =
               <<[market |-> 1, buy_count |-> 1, buy_vol |-> 100,
                  sell_count |-> 2, sell_vol |-> 75]>>

\* C18: a run of the report job whose trailing window holds no trade sends nothing
\* and hands back no report; the job is over ("quiet") and idle at its next step.
C18_EmptyWindowSilent ==
    reporter.got = "empty" =>
        /\ reporter.pc = "quiet"
        /\ reporter.sends = 0
        /\ reporter.message = NoReport

\* the job ended silently although the sorted set still holds (older) trades
C18_Witness ==
    /\ reporter.pc = "quiet"
    /\ reporter.got = "empty"
    /\ window # {}

\* C19: a reporting tick that finds at least one trade sends exactly one report:
\* the report job that read trades made one send_message call, and a poll cycle
\* that ran to its end over fresh trades sent its summary.
C19_OneReportPerTick ==
    /\ reporter.pc = "posted" => reporter.sends = 1
    /\ \A t \in Tasks :
          pc[t] = "done" /\ loc[t].fresh # <<>> /\ "savewm" \in gh[t].did
              => "summary" \in gh[t].did

\* the step in which a purge removes its range
PurgeRan == ws.pc = "purge" /\ ws'.pc = "handled"

\* What holds of the retention (C20 up to the boundary), with the purge cutoff
\* p - TradeRetention of a purge run at time p.  A stored trade of score t is gone after a purge with t < cutoff (p later
\* than t + R) and still stored after a purge with t > cutoff (p earlier than
\* t + R); the purge removes exactly the entries with score at or below the cutoff
\* and returns their number; and a range read issued after a purge returns no
\* trade whose score is below that purge's cutoff.
WindowRetention ==
    /\ [][PurgeRan =>
            /\ \A e \in window : e.ts < ws.cutoff => e \notin window'
            /\ \A e \in window : e.ts > ws.cutoff => e \in window'
            /\ window' = {e \in window : e.ts > ws.cutoff}
            /\ ws'.removed = Cardinality(window \ window')]_vars
    /\ [](\A k \in 1..Len(reporter.trades) : reporter.trades[k].ts >= reporter.purged)

\* C20: window retention.  With cutoff = p - TradeRetention for a purge run at time
\* p, the purge removes the entries with score below the cutoff, and only those: a
\* trade of score t is removed when p is later than t + TradeRetention and is still
\* stored otherwise.
C20_PurgeBelowCutoff ==
    [][PurgeRan => window' = {e \in window : ~(e.ts < ws.cutoff)}]_vars

\* C21: membership of the trade window is idempotent: however often a trade is
\* delivered, the sorted set holds one entry for its trade id and timestamp, so that
\* no range read returns it twice.
C21_IdempotentMembership ==
    \A a \in window, b \in window :
        a.trade_id = b.trade_id /\ a.ts = b.ts => a = b

\* C22: every ping received on an open connection is answered with exactly one
\* pong before the handler returns and the next message is handled, unless the
\* connection is gone by then; and no step of a ping's handling changes the trade
\* store or a subscriber.
C22_PingAnswered ==
    /\ [][ws.msg = "ping" /\ ws.pc # "idle" /\ ws'.pc = "idle"
            => ws.pongs = 1 \/ conn.state # "open"]_vars
    /\ [][ws.msg = "ping" \/ ws'.msg = "ping" => window' = window /\ users' = users]_vars
    /\ [](ws.msg = "ping" => ws.pongs <= 1)

\* a ping has been answered while trades are stored
C22_Witness ==
    /\ ws.msg = "ping"
    /\ ws.pc = "handled"
    /\ ws.pongs = 1
    /\ conn.state = "open"
    /\ window # {}

RECURSIVE Power(_, _)
Power(b, k) == IF k = 0 THEN 1 ELSE b * Power(b, k - 1)

\* min(floor * factor^k, ceiling)
DelayAfter(k) ==
    IF MinBackoff * Power(BackoffFactor, k) < MaxBackoff
    THEN MinBackoff * Power(BackoffFactor, k)
    ELSE MaxBackoff

\* C23: the reconnect delay always lies between the floor and the ceiling; after k
\* connection errors in a row since the last reset the delay of the next wait is
\* min(floor * factor^k, ceiling) (so the wait after error k lasts
\* min(floor * factor^(k-1), ceiling)); and a connect-and-listen cycle that returns
\* without error resets the delay to the floor.
C23_BackoffBounds ==
    /\ [](/\ MinBackoff <= conn.backoff /\ conn.backoff <= MaxBackoff
          /\ conn.backoff = DelayAfter(conn.errors)
          /\ conn.state = "sleep" =>
                 /\ conn.errors >= 1
                 /\ conn.slept = DelayAfter(conn.errors - 1))
    /\ [][conn.state = "open" /\ conn'.state = "down"
            => conn'.backoff = MinBackoff /\ conn'.errors = 0]_vars

\* the loop waits the ceiling after enough errors in a row
C23_Witness ==
    /\ conn.state = "sleep"
    /\ conn.slept = MaxBackoff
    /\ conn.backoff = MaxBackoff

\* C24: shutdown is orderly: once the scheduler is shut down no new cycle starts,
\* a cycle in flight then runs to its end and is not cancelled part-way, and the
\* clients and the store are closed only when no cycle is in flight any more.
C24_OrderlyShutdown ==
    /\ [][phase # "running" =>
            \A t \in Tasks : pc[t] = "idle" => pc'[t] = "idle"]_vars
    /\ [](\A t \in Tasks : pc[t] # "cancelled")
    /\ [](phase = "closed" => \A t \in Tasks : pc[t] \notin InBody)

\* C25: same-timestamp trades are not starved: a trade that no earlier batch
\* contained and whose timestamp equals the watermark loaded for the cycle is
\* admitted by that cycle.
C25_SameTimestampAdmitted == \A t \in Tasks : gh[t].starved = {}

\* C26: the watermark is written only by the step that ends a cycle after every
\* admitted Sell trade's alert and the summary (when there is one) were handed to
\* the channel; a step in which the cycle is left by an exception leaves the
\* persisted watermark as it is.
C26_WatermarkAfterHandOff ==
    /\ [][stateFile' # stateFile =>
            \E t \in Tasks :
                /\ pc[t] \in InBody /\ pc'[t] = "done"
                /\ "savewm" \in gh'[t].did
                /\ loc'[t].fresh # <<>>
                /\ \A k \in 1..Len(loc'[t].fresh) :
                      loc'[t].fresh[k].direction = "Sell" => gh'[t].bcast[k] >= 1
                /\ TotalUsd(loc'[t].fresh, "Buy") + TotalUsd(loc'[t].fresh, "Sell") > 0
                      => "summary" \in gh'[t].did]_vars
    /\ [][\A t \in Tasks :
            pc[t] \in InBody /\ pc'[t] \in {"raised", "cancelled"}
                => stateFile' = stateFile]_vars

\* a cycle with a Sell trade has ended and has written its watermark
C26_Witness ==
    \E t \in Tasks :
        /\ pc[t] = "done"
        /\ {"alert", "summary", "savewm"} \subseteq gh[t].did
        /\ stateFile = Some(MaxTsOf(loc[t].fresh))
        /\ gh[t].wm0 # stateFile

\* C27: a failed write of one subscriber's cooldown stamp stays with that
\* subscriber: the stamp is not advanced and the cycle is not left by the exception
\* (it goes on to the next subscriber, and later persists its watermark).
C27_StampFailureIsolated ==
    [][\A t \in Tasks :
          variant = "poll" /\ pc[t] = "mark" /\ pc'[t] # "mark" =>
              /\ pc'[t] # "raised"
              /\ users' # users => gh'[t].stamped # gh[t].stamped]_vars

\* C28: while a subscriber's row exists, its last_notification_at never goes back
\* and never returns to NULL, whatever dispatch and registration steps interleave;
\* a step that leaves the dispatch history alone (a registration command) leaves
\* the stamp of a row that stays as it is.
C28_StampOnlyForward ==
    [][\A u \in UserIds :
          users[u].reg /\ users'[u].reg =>
              /\ users[u].last # NULL =>
                    /\ users'[u].last # NULL
                    /\ users'[u].last[1] >= users[u].last[1]
              /\ gh' = gh => users'[u].last = users[u].last]_vars

\* a stamp was written after the first clock value
C28_Witness ==
    \E u \in UserIds :
        /\ users[u].reg
        /\ users[u].last # NULL
        /\ users[u].last[1] > 1

\* C29: the normaliser is total: enriching the trades of a message never raises (a
\* malformed amount becomes USD 0), so every trade of the message reaches the store.
C29_NormalizerTotal == ws.msg = "trades" => ws.norm = "ok"

\* C30: side resolution: every enriched trade is a buy when its bid account is the
\* tracked account, otherwise a sell when its ask account is, otherwise unknown;
\* trades that agree on the two accounts agree on the side.
C30_SideResolution ==
    \A e \in window \cup ws.members :
        /\ e.side = IF e.bid = Account THEN "buy"
                    ELSE IF e.ask = Account THEN "sell"
                    ELSE "unknown"
        /\ \A f \in window \cup ws.members :
              f.bid = e.bid /\ f.ask = e.ask => f.side = e.side

\* trades of all four shapes are stored, among them one with the tracked account
\* on both sides, and one with it on neither
C30_Witness ==
    /\ \E e \in window : e.bid = Account /\ e.ask = Account /\ e.side = "buy"
    /\ \E e \in window : e.bid # Account /\ e.ask # Account /\ e.side = "unknown"
    /\ \E e \in window : e.bid # Account /\ e.ask = Account /\ e.side = "sell"

\* C34: the client keeps no connection open beyond the maximum connection age; a
\* connection that reaches it is closed by the client, which cancels the receive loop
\* with its handler, resets the delay to the floor and does not sleep before it
\* connects again; and every connection starts a new life with its own subscribe
\* message.
C34_ConnectionRecycled ==
    /\ [](conn.state = "open" => conn.age <= MaxConnectionAge)
    /\ [][conn.state = "open" /\ AgedOut(conn.age) /\ conn'.state = "down"
            => /\ conn'.backoff = MinBackoff
               /\ ws'.pc \notin {"store", "purge", "pong"}]_vars
    /\ [][conn.state = "down" /\ conn'.state = "open" => conn'.age = 0]_vars

\* an aged connection has been recycled while its handler was awaiting the store
C34_Witness ==
    /\ conn.state = "down"
    /\ conn.age = MaxConnectionAge
    /\ conn.backoff = MinBackoff
    /\ ws.pc = "cancelled"
    /\ ws.msg = "trades"

\* C36: an exception raised while a message is handled stays in the receive loop:
\* it leaves the delay and the error count alone, and, unless it is the pong that
\* failed on a lost connection, the connection stays open as it was, so that the
\* loop takes the next message from it.
C36_ExceptionContained ==
    /\ [][ws.pc # "dropped" /\ ws'.pc = "dropped"
            => /\ conn'.backoff = conn.backoff
               /\ conn'.errors = conn.errors
               /\ ws.pc # "pong" => conn' = conn /\ conn.state = "open"]_vars
    /\ [][ws.pc = "dropped" /\ ws'.pc = "idle" => conn' = conn]_vars

\* a failed store has been dropped on a connection that had errors before
C36_Witness ==
    /\ ws.pc = "dropped"
    /\ ws.msg = "trades"
    /\ conn.state = "open"
    /\ conn.errors > 0

\* C31: every trade of a message, a trade of unknown side included, is written to
\* the window, and the sell callback (the personal alerts of the push program) is
\* called only for trades whose side is sell; in the poll program a broadcast is
\* sent only for a trade of direction Sell.
C31_OnlySellsAlert ==
    /\ ws.pc = "purge" => ws.members \subseteq window
    /\ \A e \in ws.called : e \in ws.members /\ e.side = "sell"
    /\ \A e \in ws.members : e.side \in {"buy", "unknown"} => e \notin ws.called
    /\ \A t \in Tasks :
          variant = "poll" /\ pc[t] \in InBody =>
              \A k \in DOMAIN gh[t].bcast :
                  gh[t].bcast[k] > 0 => loc[t].fresh[k].direction = "Sell"

\* a message with a sell and a trade of unknown side has been stored and handled
C31_Witness ==
    /\ ws.pc = "handled"
    /\ \E e \in ws.members : e.side = "unknown" /\ e \in window
    /\ \E e \in ws.members : e.side = "sell" /\ e \in ws.called

\* C35: no operation of the subscriber store is issued while the store has no
\* connection: once the program serves, shutdown included, no cycle meets the
\* "SubscriptionStore is not connected" error.
C35_StoreConnected == \A t \in Tasks : "notconnected" \notin gh[t].did

\* C32: the retention horizon covers the report window under every configured
\* interval: a purge run at time p removes no trade that lies inside the trailing
\* window of a report that fires at p or later (no trade of score above
\* p - interval).
C32_RetentionCoversWindow ==
    [][PurgeRan => \A e \in window \ window' : ~(e.ts > now - reporter.interval)]_vars

\* the sum of one statistic over the markets of a report
RECURSIVE SumOfMarkets(_, _, _)
SumOfMarkets(trades, mkts, stat) ==
    IF mkts = {} THEN 0
    ELSE LET mkt == CHOOSE x \in mkts : TRUE
         IN  MarketStats(trades, mkt)[stat] + SumOfMarkets(trades, mkts \ {mkt}, stat)

\* the trades of a report whose side is known
KnownSide(trades) == SelectSeq(trades, LAMBDA e : e.side \in {"buy", "sell"})

\* C37: in every report that is sent the buy total is the sum of the markets' buy
\* volumes and the sell total the sum of their sell volumes, the markets' counts add
\* up to the number of buy and sell trades read, and the trades of unknown side
\* change no total, no volume and no count; the lines written are the statistics
\* of the markets.
C37_TotalsAddUp ==
    reporter.pc = "send" =>
        LET trades == reporter.trades
            mkts == Markets(trades)
            message == reporter.message
        IN  /\ message.buy = SumOfMarkets(trades, mkts, "buy_vol")
            /\ message.sell = SumOfMarkets(trades, mkts, "sell_vol")
            /\ SumOfMarkets(trades, mkts, "buy_count")
                 + SumOfMarkets(trades, mkts, "sell_count") = Len(KnownSide(trades))
            /\ message.buy = TotalVolume(KnownSide(trades), "buy")
            /\ message.sell = TotalVolume(KnownSide(trades), "sell")
            /\ \A mkt \in mkts :
                  MarketStats(trades, mkt) = MarketStats(KnownSide(trades), mkt)
            /\ \A k \in 1..Len(message.lines) :
                  /\ message.lines[k].market \in mkts
                  /\ message.lines[k] = MarketStats(trades, message.lines[k].market)

\* a report with buys, sells and a trade of unknown side on two markets is sent
C37_Witness ==
    /\ reporter.pc = "send"
    /\ \E k \in 1..Len(reporter.trades) : reporter.trades[k].side = "unknown"
    /\ Len(reporter.message.lines) = 2
    /\ reporter.message.buy > 0
    /\ reporter.message.sell > 0

\* the report job's read returns its result
ReadRan == reporter.pc = "read" /\ reporter'.pc # "read" /\ reporter'.got # "error"

\* C33: the reader sees no partial batch: the sorted set changes only by the insert
\* of a whole batch or by a purge, a range read returns the trades that one state of
\* the set holds inside the read window, and a read that returns after a batch was
\* stored returns every trade of the batch that lies inside the read window.
C33_BatchAtomic ==
    /\ [][window' # window =>
            \/ ws.pc = "store" /\ window' = window \cup ws.members
            \/ ws.pc = "purge" /\ window' = {e \in window : e.ts > ws.cutoff}]_vars
    /\ [][ReadRan =>
            /\ {reporter'.trades[k] : k \in 1..Len(reporter'.trades)}
                 = {e \in window : e.ts >= reporter.min_score}
            /\ ws.pc = "purge" =>
                 \A e \in ws.members :
                     e.ts >= reporter.min_score =>
                         \E k \in 1..Len(reporter'.trades) : reporter'.trades[k] = e]_vars

\* a read has returned both trades of a batch between its store and its purge
C33_Witness ==
    /\ reporter.pc = "send"
    /\ ws.pc = "purge"
    /\ Cardinality(ws.members) = 2
    /\ \A e \in ws.members : \E k \in 1..Len(reporter.trades) : reporter.trades[k] = e

\* C38: when a report fires exactly one report interval after the previous one and
\* both read the sorted set in the tick they fire, no trade that was stored when
\* the previous report fired, and that the previous report counted, is counted
\* again.
C38_CountedOnce ==
    /\ reporter.pc = "send"
    /\ reporter.prev.at # 0
    /\ reporter.prev.read = reporter.prev.at
    /\ reporter.min_score + reporter.interval = reporter.prev.at + reporter.interval
    /\ now = reporter.min_score + reporter.interval
    => \A e \in Counted(reporter.trades) :
           e.received_at <= reporter.prev.at /\ e.ts <= reporter.prev.at
               => e \notin reporter.prev.counted
====
